---- MODULE Spec2Model ----
(***************************************************************************)
(* Model of the Loki JSON v1 exchanger (src/exchanger.go): the stream      *)
(* transformer transformLogStreamsToDTO, and the Push / Ping /             *)
(* SetBasicAuth operations of lokiJsonV1Exchanger against an HTTP          *)
(* transport whose outcomes (response, failure, deadline) are chosen by    *)
(* the environment.                                                        *)
(*                                                                         *)
(* Go values are represented as follows.                                   *)
(*   slice   : [isNil, elems]   a nil slice has isNil = TRUE, elems = <<>> *)
(*   pointer : a record with an isNil field; the other fields of a nil     *)
(*             pointer hold fixed fillers and are never read               *)
(*   string  : a TLA+ string; []byte : a sequence of byte values           *)
(* Fields the exchanger never reads (LogStream.Level, LogEntry.Level,      *)
(* LogEntry.Labels) are left out.                                          *)
(***************************************************************************)
EXTENDS Integers, Sequences, FiniteSets, TLC

VARIABLES
    pc,            \* position of the (single, synchronous) caller
    useGzipCompression, \* lokiJsonV1Exchanger.useGzipCompression
    addressOK,     \* whether lokiAddress yields a well-formed request URL
    username,      \* lokiJsonV1Exchanger.username
    password,      \* lokiJsonV1Exchanger.password
    streams,       \* argument of the running Push / transformer call
    dto,           \* result of transformLogStreamsToDTO for that call
    encodeErr,     \* error returned by the serialising closure of Push
    gw,            \* gzip writer of the running Push: "none", "open", "closed"
    buf,           \* bytes.Buffer of the running Push
    req,           \* request handed to restClient.Do (NoRequest when none)
    inFlight,      \* the transport is working on req
    resp,          \* response the transport returned (NoResponse when none)
    clock,         \* time elapsed since the Ping context was created
    pushResult,    \* what the last Push returned
    pingResult,    \* what the last Ping returned
    lastAuth,      \* history: number of SetBasicAuth calls, arguments of the last
    sent,          \* history: requests handed to the transport by the running call
    timedOut       \* history: the running/last Ping's deadline fired

vars == <<pc, useGzipCompression, addressOK, username, password, streams, dto,
          encodeErr, gw, buf, req, inFlight, resp, clock, pushResult, pingResult,
          lastAuth, sent, timedOut>>

----------------------------------------------------------------------------
(* Bounds of the checked inputs *)

MaxStreams == 2
MaxEntries == 2
\* SetBasicAuth calls in one behaviour
MaxSetBasicAuth == 2
\* the request timeout, in ticks of the model's clock
TimeoutTicks == 2

----------------------------------------------------------------------------
(* Go data model: LogEntry, LogStream, slices, DTOs *)

NilSlice == [isNil |-> TRUE, elems |-> <<>>]

MakeSlice(elems) == [isNil |-> FALSE, elems |-> elems]

len(s) == Len(s.elems)

NilEntry == [isNil |-> TRUE, Timestamp |-> 0, LogLine |-> <<>>]

LogEntry(ts, line) == [isNil |-> FALSE, Timestamp |-> ts, LogLine |-> line]

NoLabels == [job |-> ""]

NilStream == [isNil |-> TRUE, Labels |-> NoLabels, Entries |-> NilSlice]

LogStream(labels, entries) == [isNil |-> FALSE, Labels |-> labels, Entries |-> entries]

NilDTO == [isNil |-> TRUE, Streams |-> NilSlice]

lokiDTOJsonV1PushRequest(ss) == [isNil |-> FALSE, Streams |-> ss]

lokiDTOJsonV1Stream(labels, values) == [Stream |-> labels, Values |-> values]

----------------------------------------------------------------------------
(* Conversions used by the transformer *)

Digit(d) ==
    CASE d = 0 -> "0" [] d = 1 -> "1" [] d = 2 -> "2" [] d = 3 -> "3"
      [] d = 4 -> "4" [] d = 5 -> "5" [] d = 6 -> "6" [] d = 7 -> "7"
      [] d = 8 -> "8" [] d = 9 -> "9"

RECURSIVE FormatUint(_)
FormatUint(n) ==
    IF n < 10 THEN Digit(n) ELSE FormatUint(n \div 10) \o Digit(n % 10)

\* strconv.FormatInt(n, 10)
FormatInt(n) == IF n < 0 THEN "-" \o FormatUint(-n) ELSE FormatUint(n)

Chr(b) == CASE b = 97 -> "a" [] b = 98 -> "b" [] b = 99 -> "c"

\* string(bytes): the bytes verbatim, as text
RECURSIVE BytesToString(_)
BytesToString(bytes) ==
    IF bytes = <<>> THEN ""
    ELSE Chr(Head(bytes)) \o BytesToString(Tail(bytes))

----------------------------------------------------------------------------
(* Stream transformer *)

ValuePair(e) == <<FormatInt(e.Timestamp), BytesToString(e.LogLine)>>

\* mutant: the value pair is put in front of the values collected so far
RECURSIVE EntriesLoopPrepend(_, _, _)
EntriesLoopPrepend(entries, j, values) ==
    IF j > Len(entries) THEN values
    ELSE IF entries[j].isNil THEN EntriesLoopPrepend(entries, j + 1, values)
    ELSE EntriesLoopPrepend(entries, j + 1, <<ValuePair(entries[j])>> \o values)

\* the loop over streams[i].Entries, from index j on, values collected so far
RECURSIVE EntriesLoop(_, _, _)
EntriesLoop(entries, j, values) ==
    IF j > Len(entries) THEN values
    ELSE IF entries[j].isNil THEN EntriesLoop(entries, j + 1, values)
    ELSE EntriesLoop(entries, j + 1, Append(values, ValuePair(entries[j])))

\* the loop over streams, from index i on, StreamDTOs collected so far
RECURSIVE StreamsLoop(_, _, _)
StreamsLoop(ss, i, out) ==
    IF i > Len(ss) THEN out
    ELSE IF ss[i].isNil \/ len(ss[i].Entries) = 0 THEN StreamsLoop(ss, i + 1, out)
    ELSE StreamsLoop(ss, i + 1,
             Append(out, lokiDTOJsonV1Stream(ss[i].Labels,
                             MakeSlice(EntriesLoop(ss[i].Entries.elems, 1, <<>>)))))

\* mutant: the nil check is a length check, so an empty sequence also gives nil
transformLenCheck(ss) ==
    IF len(ss) = 0 THEN NilDTO
    ELSE lokiDTOJsonV1PushRequest(MakeSlice(StreamsLoop(ss.elems, 1, <<>>)))

transformLogStreamsToDTO(ss) ==
    IF ss.isNil THEN NilDTO
    ELSE lokiDTOJsonV1PushRequest(MakeSlice(StreamsLoop(ss.elems, 1, <<>>)))

----------------------------------------------------------------------------
(* Inputs *)

SeqsUpTo(S, n) == UNION {[1..k -> S] : k \in 0..n}

SlicesUpTo(S, n) == {NilSlice} \cup {MakeSlice(q) : q \in SeqsUpTo(S, n)}

EntryValues == {LogEntry(12, <<98>>), LogEntry(-7, <<97, 99>>)}

EntryPointers == {NilEntry} \cup EntryValues

LabelSets == {[job |-> "api"], [job |-> "db"]}

StreamPointers(n) ==
    {NilStream} \cup
    {LogStream(l, es) : l \in LabelSets, es \in SlicesUpTo(EntryPointers, n)}

StreamSlices(m, n) == SlicesUpTo(StreamPointers(n), m)

----------------------------------------------------------------------------
(* Serialisation: encoding/json on the DTO, compress/gzip on the buffer.    *)
(* A text is a sequence of tokens.                                          *)

Quote(str) == "\"" \o str \o "\""

RECURSIVE JoinComma(_)
JoinComma(texts) ==
    IF texts = <<>> THEN <<>>
    ELSE IF Len(texts) = 1 THEN texts[1]
    ELSE texts[1] \o <<",">> \o JoinComma(Tail(texts))

JSONArray(texts) == <<"[">> \o JoinComma(texts) \o <<"]">>

\* map[string]string with the one key the modelled label sets have
LabelsJSON(labels) == <<"{", Quote("job"), ":", Quote(labels.job), "}">>

\* [2]string
PairJSON(pair) == <<"[", Quote(pair[1]), ",", Quote(pair[2]), "]">>

\* [][2]string, json:"values"
ValuesJSON(values) ==
    IF values.isNil THEN <<"null">>
    ELSE JSONArray([k \in 1..len(values) |-> PairJSON(values.elems[k])])

\* lokiDTOJsonV1Stream
StreamJSON(st) ==
    <<"{", Quote("stream"), ":">> \o LabelsJSON(st.Stream)
        \o <<",", Quote("values"), ":">> \o ValuesJSON(st.Values) \o <<"}">>

\* []*lokiDTOJsonV1Stream, json:"streams"
StreamsJSON(ss) ==
    IF ss.isNil THEN <<"null">>
    ELSE JSONArray([k \in 1..len(ss) |-> StreamJSON(ss.elems[k])])

\* json.NewEncoder(w).Encode(v) for v of type *lokiDTOJsonV1PushRequest: the
\* document and a newline; a nil pointer is encoded as null
EncodeJSON(v) ==
    IF v.isNil THEN <<"null", "\n">>
    ELSE <<"{", Quote("streams"), ":">> \o StreamsJSON(v.Streams) \o <<"}", "\n">>

EmptyBuffer == [gz |-> FALSE, trailer |-> FALSE, data |-> <<>>]

\* mutant: the gzip writer is not closed when the closure returns
serializeClosureNoClose(gzip, written) ==
    IF gzip
    THEN [gw |-> "open", buf |-> [gz |-> TRUE, trailer |-> FALSE, data |-> <<>>]]
    ELSE [gw |-> "none", buf |-> [gz |-> FALSE, trailer |-> FALSE, data |-> written]]

\* The closure of Push at its return: `written` is what the encoder wrote
\* to w (nothing when Encode failed).  With compression the deferred
\* gw.Close() has run, so buf holds the complete gzip stream (header,
\* compressed data, trailer) of `written`.
serializeClosure(gzip, written) ==
    IF gzip
    THEN [gw |-> "closed", buf |-> [gz |-> TRUE, trailer |-> TRUE, data |-> written]]
    ELSE [gw |-> "none", buf |-> [gz |-> FALSE, trailer |-> FALSE, data |-> written]]

----------------------------------------------------------------------------
(* Requests, responses, results *)

NoAuth == [set |-> FALSE, username |-> "", password |-> ""]

NoRequest ==
    [method |-> "", url |-> "", contentType |-> "", contentEncoding |-> "",
     auth |-> NoAuth, body |-> EmptyBuffer, deadline |-> FALSE]

NoResponse == [got |-> FALSE, StatusCode |-> 0, Body |-> ""]

\* a Go error is the sequence of the pieces of its message; nil is <<>>
NoPushResult == [returned |-> FALSE, err |-> <<>>]

NilPong == [isNil |-> TRUE, IsReady |-> FALSE]

PongResponse(ready) == [isNil |-> FALSE, IsReady |-> ready]

NoPingResult == [returned |-> FALSE, pong |-> NilPong, err |-> <<>>]

NeverSet == [calls |-> 0, username |-> "", password |-> ""]

\* mutant: the range check loses its lower bound
isSuccessHTTPCodeNoLower(code) == code < 300

isSuccessHTTPCode(code) == 199 < code /\ code < 300

\* mutant: one non-empty field is enough to attach credentials
pushAuthEither(u, p) ==
    IF u # "" \/ p # "" THEN [set |-> TRUE, username |-> u, password |-> p]
    ELSE NoAuth

\* req.SetBasicAuth under the guard of Push
pushAuth(u, p) ==
    IF u # "" /\ p # "" THEN [set |-> TRUE, username |-> u, password |-> p]
    ELSE NoAuth

requestTimeout == TimeoutTicks

----------------------------------------------------------------------------
(* Inputs of the exchanger *)

Usernames == {"", "alice", "bob"}

Passwords == {"", "s3cret"}

StatusCodes == {199, 200, 204, 299, 300, 500, 503}

Bodies == {"", "internal error"}

PushInputs == StreamSlices(1, 1)

----------------------------------------------------------------------------
(* The exchanger *)

NoCall ==
    /\ streams = NilSlice
    /\ dto = NilDTO
    /\ encodeErr = FALSE
    /\ gw = "none"
    /\ buf = EmptyBuffer
    /\ req = NoRequest
    /\ inFlight = FALSE
    /\ resp = NoResponse
    /\ clock = 0
    /\ pushResult = NoPushResult
    /\ pingResult = NoPingResult
    /\ sent = 0
    /\ timedOut = FALSE

\* NewJSONv1Exchanger(lokiAddress, useGzipCompression)
Init ==
    /\ pc = "idle"
    /\ useGzipCompression \in BOOLEAN
    /\ addressOK \in BOOLEAN
    /\ username = ""
    /\ password = ""
    /\ lastAuth = NeverSet
    /\ NoCall

SetBasicAuth(u, p) ==
    /\ pc = "idle"
    /\ lastAuth.calls < MaxSetBasicAuth
    /\ username' = u
    /\ password' = p
    /\ lastAuth' = [calls |-> lastAuth.calls + 1, username |-> u, password |-> p]
    /\ UNCHANGED <<pc, useGzipCompression, addressOK, streams, dto, encodeErr, gw,
                   buf, req, inFlight, resp, clock, pushResult, pingResult, sent,
                   timedOut>>

\* Push, from its entry to the return of the serialising closure, whose
\* result is not looked at.  encodeFails: Encode returns an error.
PushSerialize(ss, encodeFails) ==
    /\ pc = "idle"
    /\ LET d == transformLogStreamsToDTO(ss)
           c == serializeClosure(useGzipCompression,
                                 IF encodeFails THEN <<>> ELSE EncodeJSON(d))
       IN /\ streams' = ss
          /\ dto' = d
          /\ encodeErr' = encodeFails
          /\ gw' = c.gw
          /\ buf' = c.buf
    /\ pc' = "push_built"
    /\ req' = NoRequest
    /\ inFlight' = FALSE
    /\ resp' = NoResponse
    /\ clock' = 0
    /\ pushResult' = NoPushResult
    /\ pingResult' = NoPingResult
    /\ sent' = 0
    /\ timedOut' = FALSE
    /\ UNCHANGED <<useGzipCompression, addressOK, username, password, lastAuth>>

\* Push, from http.NewRequest to the call of restClient.Do
PushNewRequest ==
    /\ pc = "push_built"
    /\ \/ /\ ~addressOK
          /\ pushResult' = [returned |-> TRUE,
                            err |-> <<"failed to create request: ", "parse error">>]
          /\ pc' = "idle"
          /\ UNCHANGED <<req, inFlight, sent>>
       \/ /\ addressOK
          /\ req' = [method |-> "POST",
                     url |-> "/loki/api/v1/push",
                     contentType |-> "application/json",
                     contentEncoding |-> IF useGzipCompression THEN "gzip" ELSE "",
                     auth |-> pushAuth(username, password),
                     body |-> buf,
                     deadline |-> FALSE]
          /\ inFlight' = TRUE
          /\ sent' = sent + 1
          /\ pc' = "push_do"
          /\ UNCHANGED pushResult
    /\ UNCHANGED <<useGzipCompression, addressOK, username, password, streams, dto,
                   encodeErr, gw, buf, resp, clock, pingResult, lastAuth, timedOut>>

\* restClient.Do returns a response: the rest of Push
PushDoResponse(code, body) ==
    /\ pc = "push_do"
    /\ resp' = [got |-> TRUE, StatusCode |-> code, Body |-> body]
    /\ inFlight' = FALSE
    /\ pushResult' =
          IF ~isSuccessHTTPCode(code)
          THEN [returned |-> TRUE,
                err |-> <<"unexpected response code [code=", FormatInt(code),
                          "], message: ", body>>]
          ELSE [returned |-> TRUE, err |-> <<>>]
    /\ pc' = "idle"
    /\ UNCHANGED <<useGzipCompression, addressOK, username, password, streams, dto,
                   encodeErr, gw, buf, req, clock, pingResult, lastAuth, sent,
                   timedOut>>

\* restClient.Do returns an error
PushDoError ==
    /\ pc = "push_do"
    /\ inFlight' = FALSE
    /\ pushResult' = [returned |-> TRUE,
                      err |-> <<"failed to send push message: ", "connection refused">>]
    /\ pc' = "idle"
    /\ UNCHANGED <<useGzipCompression, addressOK, username, password, streams, dto,
                   encodeErr, gw, buf, req, resp, clock, pingResult, lastAuth, sent,
                   timedOut>>

\* Ping, from its entry to the call of restClient.Do
PingNewRequest ==
    /\ pc = "idle"
    /\ \/ /\ ~addressOK
          /\ pingResult' = [returned |-> TRUE, pong |-> NilPong,
                            err |-> <<"unable to build ping request: ", "parse error">>]
          /\ req' = NoRequest
          /\ inFlight' = FALSE
          /\ sent' = 0
          /\ pc' = "idle"
       \/ /\ addressOK
          /\ req' = [method |-> "GET",
                     url |-> "/ready",
                     contentType |-> "",
                     contentEncoding |-> "",
                     auth |-> NoAuth,
                     body |-> EmptyBuffer,
                     deadline |-> TRUE]
          /\ inFlight' = TRUE
          /\ sent' = 1
          /\ pingResult' = NoPingResult
          /\ pc' = "ping_do"
    /\ streams' = NilSlice
    /\ dto' = NilDTO
    /\ encodeErr' = FALSE
    /\ gw' = "none"
    /\ buf' = EmptyBuffer
    /\ resp' = NoResponse
    /\ clock' = 0
    /\ pushResult' = NoPushResult
    /\ timedOut' = FALSE
    /\ UNCHANGED <<useGzipCompression, addressOK, username, password, lastAuth>>

\* time passes while the ping request is in flight
Tick ==
    /\ pc = "ping_do"
    /\ clock < requestTimeout
    /\ clock' = clock + 1
    /\ UNCHANGED <<pc, useGzipCompression, addressOK, username, password, streams,
                   dto, encodeErr, gw, buf, req, inFlight, resp, pushResult,
                   pingResult, lastAuth, sent, timedOut>>

\* mutant: a readiness response outside 2xx is returned as an error
PingDoResponseStrict ==
    \E code \in StatusCodes, body \in Bodies :
        /\ pc = "ping_do"
        /\ clock < requestTimeout
        /\ resp' = [got |-> TRUE, StatusCode |-> code, Body |-> body]
        /\ inFlight' = FALSE
        /\ pingResult' =
              IF isSuccessHTTPCode(code)
              THEN [returned |-> TRUE, pong |-> PongResponse(TRUE), err |-> <<>>]
              ELSE [returned |-> TRUE, pong |-> NilPong,
                    err |-> <<"unexpected response code [code=", FormatInt(code), "]">>]
        /\ pc' = "idle"
        /\ UNCHANGED <<useGzipCompression, addressOK, username, password, streams,
                       dto, encodeErr, gw, buf, req, clock, pushResult, lastAuth,
                       sent, timedOut>>

\* restClient.Do returns a response before the deadline: the rest of Ping
PingDoResponse ==
    \E code \in StatusCodes, body \in Bodies :
        /\ pc = "ping_do"
        /\ clock < requestTimeout
        /\ resp' = [got |-> TRUE, StatusCode |-> code, Body |-> body]
        /\ inFlight' = FALSE
        /\ pingResult' = [returned |-> TRUE,
                          pong |-> PongResponse(isSuccessHTTPCode(code)),
                          err |-> <<>>]
        /\ pc' = "idle"
        /\ UNCHANGED <<useGzipCompression, addressOK, username, password, streams,
                       dto, encodeErr, gw, buf, req, clock, pushResult, lastAuth,
                       sent, timedOut>>

\* restClient.Do returns an error before the deadline
PingDoError ==
    /\ pc = "ping_do"
    /\ clock < requestTimeout
    /\ inFlight' = FALSE
    /\ pingResult' = [returned |-> TRUE, pong |-> NilPong,
                      err |-> <<"pong is not received: ", "connection refused">>]
    /\ pc' = "idle"
    /\ UNCHANGED <<useGzipCompression, addressOK, username, password, streams, dto,
                   encodeErr, gw, buf, req, resp, clock, pushResult, lastAuth, sent,
                   timedOut>>

\* mutant: a timeout is reported as "not ready" instead of an error
PingDeadlineNotReady ==
    /\ pc = "ping_do"
    /\ clock = requestTimeout
    /\ timedOut' = TRUE
    /\ inFlight' = FALSE
    /\ pingResult' = [returned |-> TRUE, pong |-> PongResponse(FALSE), err |-> <<>>]
    /\ pc' = "idle"
    /\ UNCHANGED <<useGzipCompression, addressOK, username, password, streams, dto,
                   encodeErr, gw, buf, req, resp, clock, pushResult, lastAuth, sent>>

\* the context's deadline fires: the request is aborted, restClient.Do
\* returns the context's error, Ping returns it
PingDeadline ==
    /\ pc = "ping_do"
    /\ clock = requestTimeout
    /\ timedOut' = TRUE
    /\ inFlight' = FALSE
    /\ pingResult' = [returned |-> TRUE, pong |-> NilPong,
                      err |-> <<"pong is not received: ", "context deadline exceeded">>]
    /\ pc' = "idle"
    /\ UNCHANGED <<useGzipCompression, addressOK, username, password, streams, dto,
                   encodeErr, gw, buf, req, resp, clock, pushResult, lastAuth, sent>>

Next ==
    \/ \E u \in Usernames, p \in Passwords : SetBasicAuth(u, p)
    \/ \E ss \in PushInputs, encodeFails \in BOOLEAN : PushSerialize(ss, encodeFails)
    \/ PushNewRequest
    \/ \E code \in StatusCodes, body \in Bodies : PushDoResponse(code, body)
    \/ PushDoError
    \/ PingNewRequest
    \/ Tick
    \/ PingDoResponse
    \/ PingDoError
    \/ PingDeadline

Spec == Init /\ [][Next]_vars

\* the clock advances and the deadline timer fires
FairSpec == Spec /\ WF_vars(Tick) /\ WF_vars(PingDeadline)

----------------------------------------------------------------------------
(* The transformer applied to every bounded input *)

InitT ==
    /\ pc = "t_ready"
    /\ streams \in StreamSlices(MaxStreams, MaxEntries)
    /\ useGzipCompression = FALSE
    /\ addressOK = TRUE
    /\ username = ""
    /\ password = ""
    /\ lastAuth = NeverSet
    /\ dto = NilDTO
    /\ encodeErr = FALSE
    /\ gw = "none"
    /\ buf = EmptyBuffer
    /\ req = NoRequest
    /\ inFlight = FALSE
    /\ resp = NoResponse
    /\ clock = 0
    /\ pushResult = NoPushResult
    /\ pingResult = NoPingResult
    /\ sent = 0
    /\ timedOut = FALSE

Transform ==
    /\ pc = "t_ready"
    /\ dto' = transformLogStreamsToDTO(streams)
    /\ pc' = "t_done"
    /\ UNCHANGED <<useGzipCompression, addressOK, username, password, streams,
                   encodeErr, gw, buf, req, inFlight, resp, clock, pushResult,
                   pingResult, lastAuth, sent, timedOut>>

NextT == Transform

SpecT == InitT /\ [][NextT]_vars

----------------------------------------------------------------------------
(* Properties of the transformer, checked under SpecT *)

NonNilEntries(es) == SelectSeq(es, LAMBDA e : ~e.isNil)

\* the value pairs of the non-absent entries of es, in input order
ExpectedValues(es) ==
    [j \in 1..Len(NonNilEntries(es)) |-> ValuePair(NonNilEntries(es)[j])]

HasValidEntry(s) == ~s.isNil /\ NonNilEntries(s.Entries.elems) # <<>>

Transformed == pc = "t_done" /\ ~streams.isNil

\* C3: every input stream that is absent or has no non-absent entry is
\* omitted (also when its Entries sequence holds only absent entries), so
\* no StreamDTO of the output has an empty Values sequence.
C3_EmptyStreamsOmitted ==
    Transformed =>
        /\ \A k \in 1..len(dto.Streams) : len(dto.Streams.elems[k].Values) > 0
        /\ len(dto.Streams) =
               Cardinality({i \in 1..len(streams) : HasValidEntry(streams.elems[i])})

\* C5: an absent (nil) stream sequence gives an absent (nil) result; a
\* present stream sequence gives a present DTO, and a present but empty
\* one gives a DTO whose Streams list is present and empty.
C5_NilEmptyDistinction ==
    pc = "t_done" =>
        /\ streams.isNil => dto.isNil
        /\ ~streams.isNil => ~dto.isNil /\ ~dto.Streams.isNil
        /\ (~streams.isNil /\ len(streams) = 0) => dto.Streams.elems = <<>>

C5_Witness ==
    /\ pc = "t_done"
    /\ ~streams.isNil /\ len(streams) = 0
    /\ ~dto.isNil /\ dto.Streams = MakeSlice(<<>>)

\* C6: the StreamDTOs of the output are derived from input streams taken in
\* increasing index order (every stream with a non-absent entry among
\* them), and the Values of each are exactly the value pairs of its source
\* stream's non-absent entries in input order: nothing is reordered,
\* sorted, merged or dropped.
C6_OrderPreserved ==
    Transformed =>
        LET in == streams.elems
            out == dto.Streams.elems
        IN \E f \in [1..Len(out) -> 1..Len(in)] :
              /\ \A k, l \in 1..Len(out) : k < l => f[k] < f[l]
              /\ \A i \in 1..Len(in) :
                    HasValidEntry(in[i]) => \E k \in 1..Len(out) : f[k] = i
              /\ \A k \in 1..Len(out) :
                    /\ ~in[f[k]].isNil
                    /\ out[k].Stream = in[f[k]].Labels
                    /\ out[k].Values.elems = ExpectedValues(in[f[k]].Entries.elems)

\* two retained streams; the first holds two entries with decreasing
\* timestamps, the second an absent entry followed by a present one
C6_Witness ==
    /\ pc = "t_done"
    /\ ~streams.isNil /\ len(streams) = 2 /\ len(dto.Streams) = 2
    /\ streams.elems[1].Entries.elems = <<LogEntry(12, <<98>>), LogEntry(-7, <<97, 99>>)>>
    /\ dto.Streams.elems[1].Values.elems = << <<"12", "b">>, <<"-7", "ac">> >>
    /\ streams.elems[2].Entries.elems = <<NilEntry, LogEntry(12, <<98>>)>>
    /\ dto.Streams.elems[2].Values.elems = << <<"12", "b">> >>

----------------------------------------------------------------------------
(* Properties of the exchanger, checked under Spec (C8 under FairSpec) *)

Success == 200..299

Carries(err, text) == \E i \in DOMAIN err : err[i] = text

\* C1: when the transport returned a response, Push returns nil exactly
\* when the status code is in 200..299; for any other code it returns an
\* error that carries the status code and the whole response body.
C1_PushStatus ==
    (pc = "idle" /\ pushResult.returned /\ resp.got) =>
        /\ (pushResult.err = <<>>) <=> (resp.StatusCode \in Success)
        /\ pushResult.err # <<>> =>
              /\ Carries(pushResult.err, FormatInt(resp.StatusCode))
              /\ Carries(pushResult.err, resp.Body)

C1_Witness ==
    /\ pc = "idle" /\ pushResult.returned
    /\ resp = [got |-> TRUE, StatusCode |-> 500, Body |-> "internal error"]
    /\ Carries(pushResult.err, "500")
    /\ Carries(pushResult.err, "internal error")

\* C2: when the transport returned a response, Ping returns a non-nil
\* PongResponse and a nil error, with IsReady true exactly when the status
\* code is in 200..299.
C2_PingReadiness ==
    (pc = "idle" /\ pingResult.returned /\ resp.got) =>
        /\ ~pingResult.pong.isNil
        /\ pingResult.err = <<>>
        /\ pingResult.pong.IsReady <=> (resp.StatusCode \in Success)

C2_Witness ==
    /\ pc = "idle" /\ pingResult.returned
    /\ resp.got /\ resp.StatusCode = 503
    /\ pingResult.pong = PongResponse(FALSE)
    /\ pingResult.err = <<>>

\* C4: an error of the encoder is returned to the caller: once encoding
\* has failed, Push hands no request to the transport and returns an error.
C4_EncodeErrorReturned ==
    encodeErr =>
        /\ sent = 0
        /\ ~inFlight
        /\ pushResult.returned => pushResult.err # <<>>

\* C7: the request Push hands to the transport carries Basic credentials
\* exactly when SetBasicAuth has been called and both arguments of its most
\* recent call are non-empty, and then it carries exactly that pair.
C7_BasicAuth ==
    pc = "push_do" =>
        /\ req.auth.set <=>
              (lastAuth.calls > 0 /\ lastAuth.username # "" /\ lastAuth.password # "")
        /\ req.auth.set =>
              /\ req.auth.username = lastAuth.username
              /\ req.auth.password = lastAuth.password

C7_Witness ==
    /\ pc = "push_do"
    /\ lastAuth = [calls |-> 2, username |-> "bob", password |-> "s3cret"]
    /\ req.auth = [set |-> TRUE, username |-> "bob", password |-> "s3cret"]

\* C8: Ping makes one attempt bounded by the request timeout: a ping in
\* flight ends with Ping returning; when the deadline is reached without a
\* response it fires, the request is aborted, and Ping has returned an
\* error and a nil PongResponse after handing one request to the transport.
C8_PingTimeout ==
    /\ [](timedOut =>
            /\ pc = "idle"
            /\ ~inFlight
            /\ sent = 1
            /\ pingResult.returned
            /\ pingResult.pong.isNil
            /\ pingResult.err # <<>>)
    /\ [](pc = "ping_do" => sent = 1 /\ clock <= requestTimeout)
    /\ ((pc = "ping_do" /\ clock = requestTimeout) ~> timedOut)
    /\ ((pc = "ping_do") ~> (pc = "idle" /\ pingResult.returned))

C8_Witness ==
    /\ timedOut
    /\ clock = requestTimeout
    /\ pingResult = [returned |-> TRUE, pong |-> NilPong,
                     err |-> <<"pong is not received: ", "context deadline exceeded">>]

\* C9: the request Push hands to the transport has Content-Encoding: gzip
\* exactly when compression is enabled; in that case the gzip writer was
\* closed, and the buffer held the complete gzip stream, before the request
\* was constructed; without compression the body is the plain JSON text
\* and there is no Content-Encoding header.  (The body holds the JSON
\* document whenever the encoder succeeded.)
C9_GzipClosedBeforeSend ==
    /\ (pc \in {"push_built", "push_do"} /\ useGzipCompression) =>
          gw = "closed" /\ buf.gz /\ buf.trailer
    /\ pc = "push_do" =>
          /\ (req.contentEncoding = "gzip") <=> useGzipCompression
          /\ useGzipCompression => req.body.gz /\ req.body.trailer
          /\ ~useGzipCompression => req.contentEncoding = "" /\ ~req.body.gz
          /\ ~encodeErr => req.body.data = EncodeJSON(dto)

C9_Witness ==
    /\ pc = "push_do"
    /\ useGzipCompression
    /\ ~encodeErr
    /\ req.contentEncoding = "gzip"
    /\ req.body.gz /\ req.body.trailer
    /\ len(dto.Streams) = 1

\* C10: Push of an absent (nil) stream sequence hands one POST request for
\* the push endpoint to the transport, and its body is a push document
\* with an empty streams array.
C10_NilStreamsEmptyArray ==
    (pc = "push_do" /\ streams.isNil /\ ~encodeErr) =>
        /\ req.method = "POST"
        /\ req.url = "/loki/api/v1/push"
        /\ sent = 1
        /\ req.body.data = <<"{", Quote("streams"), ":", "[", "]", "}", "\n">>

====
